---- MODULE Spec2Model ----
(***************************************************************************)
(* A model of src/main.py: the sunnah.com search scraper.                  *)
(*                                                                         *)
(*   SunnahScraper.extract_pagination_info   the pagination reader         *)
(*   SunnahScraper.extract_complete_hadith   the record extractor          *)
(*   SunnahScraper.scrape_page               fetch + extract of one page   *)
(*   SunnahScraper.scrape_all_pages          the crawl loop                *)
(*   build_stats                             the stats aggregator          *)
(*   search                                  the GET /search handler       *)
(*                                                                         *)
(* A text is a sequence of symbols; the symbol " " is whitespace.  An      *)
(* Optional value is None (Python's None, or an element the markup does    *)
(* not have) or Some(v).  A Python dict is the sequence of its <<key,      *)
(* value>> items in insertion order.                                       *)
(***************************************************************************)
EXTENDS Integers, Sequences, FiniteSets, TLC

VARIABLES
    pc,              \* "idle": no call yet; "crawl": inside the while loop of
                     \* scrape_all_pages; "done": the call has returned or raised
    caller,          \* "search": GET /search; "direct": scrape_all_pages called directly
    raw_q,           \* the q parameter of the request as sent (Optional text)
    query,           \* scrape_all_pages: query
    start_page,      \* scrape_all_pages: start_page
    max_pages,       \* scrape_all_pages: max_pages (Optional int)
    current_page,    \* scrape_all_pages: current_page
    all_hadiths,     \* scrape_all_pages: all_hadiths
    seen_refs,       \* scrape_all_pages: seen_refs
    blocks,          \* the div.boh blocks of the page fetched last
    hadiths,         \* scrape_all_pages: hadiths, of the page processed last
    has_next,        \* pagination_info["has_next"] of the page processed last
    fetched,         \* the page numbers session.get was called with, in order
    transport_failed,\* a fetch of this call raised requests.RequestException
    outcome,         \* what the caller received
    data,            \* build_stats: its argument
    stats,           \* build_stats: its result (Optional)
    soup,            \* extract_pagination_info: its argument
    pagination_info  \* extract_pagination_info: its result (Optional)

crawlVars == <<pc, caller, raw_q, query, start_page, max_pages, current_page,
               all_hadiths, seen_refs, blocks, hadiths, has_next, fetched,
               transport_failed, outcome>>
statsVars == <<data, stats>>
pagVars   == <<soup, pagination_info>>
vars      == <<crawlVars, statsVars, pagVars>>

-----------------------------------------------------------------------------
(* Bounds of the model.                                                    *)

MaxBlocks   == 1    \* result blocks (div.boh) on one page, MixedPages apart
MaxFetch    == 3    \* page fetches followed in one crawl
MaxCap      == 2    \* largest max_pages given
MaxData     == 4    \* records given to build_stats
MaxTotal    == 250  \* largest <total> of a "Showing" marker
MaxStart    == 1    \* largest <start> and <end> of a "Showing" marker

-----------------------------------------------------------------------------
(* Values.                                                                 *)

None    == <<>>
Some(v) == <<v>>

\* Python truthiness of an Optional text: None and "" are falsy.
Truthy(o) == o # None /\ o[1] # <<>>

\* Python truthiness of an Optional int: None and 0 are falsy.
TruthyInt(o) == o # None /\ o[1] # 0

Min(a, b) == IF a <= b THEN a ELSE b

RECURSIVE LStrip(_)
LStrip(t) == IF t # <<>> /\ Head(t) = " " THEN LStrip(Tail(t)) ELSE t

RECURSIVE RStrip(_)
RStrip(t) == IF t # <<>> /\ t[Len(t)] = " " THEN RStrip(SubSeq(t, 1, Len(t) - 1)) ELSE t

\* str.strip(), and get_text(strip=True) of an element holding one string.
Strip(t) == RStrip(LStrip(t))

\* All sequences over S of length at most n.
SeqsUpTo(S, n) == UNION {[1..k -> S] : k \in 0..n}

-----------------------------------------------------------------------------
(* SunnahScraper.extract_pagination_info                                   *)
(*                                                                         *)
(* A soup is [showing, pager, blocks]:                                     *)
(*   showing  None, or Some(<<start, end, total>>): the numbers of the     *)
(*            first string matching "Showing <start>-<end> of <total>";    *)
(*   pager    None, or Some([selected, next, previous]) for ul.yiiPager,   *)
(*            selected = [kind, val] the link text of li."page selected"   *)
(*            ("none": no such li or no link in it, "text": int() raises,  *)
(*            "int": it parses to val), next and previous one of "absent", *)
(*            "hidden" (class hidden), "shown";                            *)
(*   blocks   the div.boh result blocks in document order.                 *)

PageSize == 100

DefaultPaginationInfo ==
    [total_results |-> 0, current_page |-> 1, total_pages |-> 1,
     has_next |-> FALSE, has_previous |-> FALSE, results_on_page |-> 0]

\* lines 46-55 with total // 100 for the page count
ReadShowingFloor(info, showing) ==
    IF showing = None THEN info
    ELSE [info EXCEPT !.total_results   = showing[1][3],
                      !.results_on_page = showing[1][2] - showing[1][1] + 1,
                      !.total_pages     = showing[1][3] \div PageSize]

\* lines 46-55
ReadShowing(info, showing) ==
    IF showing = None THEN info
    ELSE LET start == showing[1][1]
             end   == showing[1][2]
             total == showing[1][3]
         IN  [info EXCEPT !.total_results   = total,
                          !.results_on_page = end - start + 1,
                          !.total_pages     = (total + (PageSize - 1)) \div PageSize]

\* lines 57-74
ReadPager(info, pager) ==
    IF pager = None THEN info
    ELSE LET p == pager[1]
         IN  [info EXCEPT !.current_page = IF p.selected.kind = "int" THEN p.selected.val ELSE @,
                          !.has_next     = (p.next = "shown"),
                          !.has_previous = (p.previous = "shown")]

extract_pagination_info(s) ==
    ReadPager(ReadShowing(DefaultPaginationInfo, s.showing), s.pager)

-----------------------------------------------------------------------------
(* SunnahScraper.extract_complete_hadith, for the fields the crawl and the *)
(* stats read.  A block is [ref_sticky, collection_link, english_grade]:   *)
(* the raw text of div.hadith_reference_sticky, of the first a.nounderline *)
(* under div.bc_search and of td.english_grade under table.gradetable,     *)
(* each None when the element is not there.                                *)

GradeLabel == <<"Grade:">>

\* lines 121-123
ExtractReference(block) ==
    IF block.ref_sticky = None THEN None ELSE Some(Strip(block.ref_sticky[1]))

\* lines 107-111
ExtractCollection(block) ==
    IF block.collection_link = None THEN None ELSE Some(Strip(block.collection_link[1]))

\* lines 160-168
ExtractGradeEnglish(block) ==
    IF block.english_grade = None THEN None
    ELSE LET text == Strip(block.english_grade[1])
         IN  IF text # <<>> /\ text # GradeLabel THEN Some(text) ELSE None

extract_complete_hadith(block) ==
    [reference     |-> ExtractReference(block),
     collection    |-> ExtractCollection(block),
     grade_english |-> ExtractGradeEnglish(block),
     pages         |-> None]

-----------------------------------------------------------------------------
(* SunnahScraper.scrape_page                                               *)
(*                                                                         *)
(* A response is [ok, soup]: ok is FALSE when session.get or               *)
(* raise_for_status raises requests.RequestException.                      *)

\* lines 198-199 with the failure swallowed
RaisesNever(resp) == FALSE

\* lines 198-199
Raises(resp) == ~resp.ok

\* line 209 with `is not None` for the truth test
KeepRecordNotNone(hadith) == hadith.reference # None

\* line 209
KeepRecord(hadith) == Truthy(hadith.reference)

\* lines 207-211
RECURSIVE ExtractAll(_, _)
ExtractAll(bs, page) ==
    IF bs = <<>> THEN <<>>
    ELSE LET hadith == extract_complete_hadith(Head(bs))
             rest   == ExtractAll(Tail(bs), page)
         IN  IF KeepRecord(hadith)
             THEN <<[hadith EXCEPT !.pages = Some(page)]>> \o rest
             ELSE rest

\* lines 200-213
scrape_page(s, page) ==
    [hadiths |-> ExtractAll(s.blocks, page), pagination_info |-> extract_pagination_info(s)]

-----------------------------------------------------------------------------
(* build_stats                                                             *)

UnknownKey   == <<"Unknown">>
NotGradedKey == <<"Not graded">>

\* h.get(field) or sentinel
OrElse(o, sentinel) == IF Truthy(o) THEN o[1] ELSE sentinel

\* d[k] = d.get(k, 0) + 1 on a dict kept as its items in insertion order
Incr(d, k) ==
    IF \E i \in 1..Len(d) : d[i][1] = k
    THEN [i \in 1..Len(d) |-> IF d[i][1] = k THEN <<k, d[i][2] + 1>> ELSE d[i]]
    ELSE Append(d, <<k, 1>>)

\* lines 254-259, one of the two dicts
RECURSIVE CountBy(_, _, _, _)
CountBy(records, field, sentinel, d) ==
    IF records = <<>> THEN d
    ELSE CountBy(Tail(records), field, sentinel,
                 Incr(d, OrElse(Head(records)[field], sentinel)))

\* InsertDesc putting x before the items of its own count: an unstable sort
RECURSIVE InsertDescUnstable(_, _)
InsertDescUnstable(sorted, x) ==
    IF sorted = <<>> THEN <<x>>
    ELSE IF Head(sorted)[2] > x[2]
         THEN <<Head(sorted)>> \o InsertDescUnstable(Tail(sorted), x)
         ELSE <<x>> \o sorted

\* Insertion of item x into a list sorted by descending count, behind every
\* item whose count is at least x's: sorted() is stable, with reverse=True too.
RECURSIVE InsertDesc(_, _)
InsertDesc(sorted, x) ==
    IF sorted = <<>> THEN <<x>>
    ELSE IF Head(sorted)[2] >= x[2]
         THEN <<Head(sorted)>> \o InsertDesc(Tail(sorted), x)
         ELSE <<x>> \o sorted

\* sorted(d.items(), key=lambda x: x[1], reverse=True)
RECURSIVE SortedDesc(_)
SortedDesc(items) ==
    IF items = <<>> THEN <<>>
    ELSE InsertDesc(SortedDesc(SubSeq(items, 1, Len(items) - 1)), items[Len(items)])

build_stats(records) ==
    [total_hadiths |-> Len(records),
     by_collection |-> SortedDesc(CountBy(records, "collection", UnknownKey, <<>>)),
     by_grade      |-> SortedDesc(CountBy(records, "grade_english", NotGradedKey, <<>>))]

-----------------------------------------------------------------------------
(* SunnahScraper.scrape_all_pages: the decisions of one pass of the loop   *)

\* lines 230-234 without the test of seen_refs
DedupNoCheck(all, seen, hs) ==
    [all  |-> all \o hs,
     seen |-> seen \cup {hs[i].reference[1] : i \in 1..Len(hs)}]

\* lines 230-234
RECURSIVE Dedup(_, _, _)
Dedup(all, seen, hs) ==
    IF hs = <<>> THEN [all |-> all, seen |-> seen]
    ELSE LET h   == Head(hs)
             ref == h.reference
         IN  IF Truthy(ref) /\ ref[1] \notin seen
             THEN Dedup(Append(all, h), seen \cup {ref[1]}, Tail(hs))
             ELSE Dedup(all, seen, Tail(hs))

\* lines 227-228 left out
BreakOnEmptyNever(hs) == FALSE

\* lines 227-228
BreakOnEmpty(hs) == hs = <<>>

\* lines 236-237 with > for >=
CapReachedLate(cp, sp, mp) == TruthyInt(mp) /\ cp > sp + mp[1] - 1

\* lines 236-237
CapReached(cp, sp, mp) == TruthyInt(mp) /\ cp >= sp + mp[1] - 1

\* lines 239-240
BreakOnNoNext(info) == ~info.has_next

-----------------------------------------------------------------------------
(* search: the decisions of the handler                                    *)

\* request.args.get(name, "").strip() of an Optional raw text
ArgStripped(raw) == Strip(IF raw = None THEN <<>> ELSE raw[1])

\* lines 279-281 without .strip()
QueryMissingNoStrip(raw) == raw = None \/ raw[1] = <<>>

\* lines 279-281
QueryMissing(raw) == ArgStripped(raw) = <<>>

Max(a, b) == IF a >= b THEN a ELSE b

\* lines 283-289.  The max_pages parameter is [kind, val]: "absent" (not sent,
\* or blank), "text" (int() raises), "int" (int() gives val).
ParseMaxPages(param) ==
    IF param.kind = "int" THEN Some(Max(1, param.val)) ELSE None

NoOutcome == [kind |-> "none", status |-> 0, error |-> "", data |-> None, stats |-> None]

\* line 281
BadRequest ==
    [kind |-> "response", status |-> 400, error |-> "Missing required query parameter: q",
     data |-> None, stats |-> None]

\* lines 293-294
UpstreamFailed ==
    [kind |-> "response", status |-> 502, error |-> "Upstream request failed",
     data |-> None, stats |-> None]

\* lines 298-302
Found(records) ==
    [kind |-> "response", status |-> 200, error |-> "",
     data |-> Some(records), stats |-> Some(build_stats(records))]

\* scrape_all_pages raising out to a direct caller
Raised == [kind |-> "raised", status |-> 0, error |-> "RequestException",
           data |-> None, stats |-> None]

\* line 246, to a direct caller
Returned(records) ==
    [kind |-> "returned", status |-> 0, error |-> "", data |-> Some(records), stats |-> None]

-----------------------------------------------------------------------------
(* Inputs.                                                                 *)

EmptySoup == [showing |-> None, pager |-> None, blocks |-> <<>>]

\* What the upstream serves during a crawl.
Block(ref, coll) == [ref_sticky |-> ref, collection_link |-> coll, english_grade |-> None]
CrawlBlocks == {Block(None, None), Block(Some(<<" ">>), None),
                Block(Some(<<" ", "r1">>), Some(<<"A">>)), Block(Some(<<"r1">>), None),
                Block(Some(<<"r2">>), None)}
NextShown   == Some([selected |-> [kind |-> "none", val |-> 0],
                     next |-> "shown", previous |-> "absent"])
\* Pages with more blocks: a reference twice on one page; a block without a
\* reference between two with one.
MixedPages  == {<<Block(Some(<<" ", "r1">>), Some(<<"A">>)), Block(Some(<<"r1">>), None)>>,
                <<Block(Some(<<"r2">>), None), Block(Some(<<" ">>), None),
                  Block(Some(<<"r1">>), None)>>}
CrawlSoups  == [showing : {None}, pager : {None, NextShown},
                blocks : SeqsUpTo(CrawlBlocks, MaxBlocks) \cup MixedPages]
Responses   == {[ok |-> FALSE, soup |-> EmptySoup]} \cup [ok : {TRUE}, soup : CrawlSoups]

\* What a client of GET /search sends.
RawQueries     == {None, Some(<<>>), Some(<<" ">>), Some(<<" ", " ">>), Some(<<" ", "q", " ">>)}
MaxPagesParams == {[kind |-> "absent", val |-> 0], [kind |-> "text", val |-> 0]}
                      \cup [kind : {"int"}, val : (-1)..MaxCap]

\* What a direct caller of scrape_all_pages passes.
StartPages   == {1, 5}
MaxPagesArgs == {None} \cup {Some(n) : n \in (-1)..MaxCap}

\* Pages from here on are not told apart in the specification of termination.
SatPage == 5 + MaxCap

-----------------------------------------------------------------------------
(* The crawl.                                                              *)

InitCrawl ==
    /\ pc = "idle"
    /\ caller = "none"
    /\ raw_q = None
    /\ query = <<>>
    /\ start_page = 1
    /\ max_pages = None
    /\ current_page = 1
    /\ all_hadiths = <<>>
    /\ seen_refs = {}
    /\ blocks = <<>>
    /\ hadiths = <<>>
    /\ has_next = FALSE
    /\ fetched = <<>>
    /\ transport_failed = FALSE
    /\ outcome = NoOutcome

IdleStats == data = <<>> /\ stats = None
IdlePag   == soup = EmptySoup /\ pagination_info = None

Init == InitCrawl /\ IdleStats /\ IdlePag

\* lines 221-223
Enter(who, q, sp, mp) ==
    /\ pc' = "crawl"
    /\ caller' = who
    /\ query' = q
    /\ start_page' = sp
    /\ max_pages' = mp
    /\ current_page' = sp
    /\ all_hadiths' = <<>>
    /\ seen_refs' = {}
    /\ UNCHANGED <<blocks, hadiths, has_next, fetched, transport_failed, outcome>>

\* GET /search?q=..&max_pages=.. up to its call of scrape_all_pages (lines 279-292)
Search(q, param) ==
    /\ pc = "idle"
    /\ raw_q' = q
    /\ IF QueryMissing(q)
       THEN /\ pc' = "done"
            /\ caller' = "search"
            /\ outcome' = BadRequest
            /\ UNCHANGED <<query, start_page, max_pages, current_page, all_hadiths,
                           seen_refs, blocks, hadiths, has_next, fetched, transport_failed>>
       ELSE Enter("search", ArgStripped(q), 1, ParseMaxPages(param))
    /\ UNCHANGED <<statsVars, pagVars>>

\* scrape_all_pages(query, start_page, max_pages) called directly (lines 215-223)
Call(sp, mp) ==
    /\ pc = "idle"
    /\ Enter("direct", <<"q">>, sp, mp)
    /\ UNCHANGED <<raw_q, statsVars, pagVars>>

\* line 246, and lines 298-302 when the caller is search
Finish(records) ==
    /\ pc' = "done"
    /\ outcome' = IF caller = "search" THEN Found(records) ELSE Returned(records)

\* One pass of the while loop (lines 226-244) on the response resp to the fetch
\* of current_page; goes on with page nextPage, the fetch log becomes log.
LoopPass(resp, nextPage, log) ==
    /\ fetched' = log
    /\ blocks' = resp.soup.blocks
    /\ IF Raises(resp)
       THEN /\ pc' = "done"
            /\ outcome' = IF caller = "search" THEN UpstreamFailed ELSE Raised
            /\ UNCHANGED <<current_page, all_hadiths, seen_refs, hadiths, has_next>>
       ELSE LET page   == scrape_page(resp.soup, current_page)
                merged == Dedup(all_hadiths, seen_refs, page.hadiths)
            IN  /\ hadiths' = page.hadiths
                /\ has_next' = page.pagination_info.has_next
                /\ IF BreakOnEmpty(page.hadiths)
                   THEN /\ Finish(all_hadiths)
                        /\ UNCHANGED <<current_page, all_hadiths, seen_refs>>
                   ELSE /\ all_hadiths' = merged.all
                        /\ seen_refs' = merged.seen
                        /\ IF CapReached(current_page, start_page, max_pages)
                              \/ BreakOnNoNext(page.pagination_info)
                           THEN Finish(merged.all) /\ UNCHANGED current_page
                           ELSE /\ current_page' = nextPage
                                /\ UNCHANGED <<pc, outcome>>
    /\ transport_failed' = (transport_failed \/ ~resp.ok)
    /\ UNCHANGED <<caller, raw_q, query, start_page, max_pages, statsVars, pagVars>>

LoopIteration ==
    /\ pc = "crawl"
    /\ Len(fetched) < MaxFetch
    /\ \E resp \in Responses :
           LoopPass(resp, current_page + 1, Append(fetched, current_page))

Next ==
    \/ \E q \in RawQueries, param \in MaxPagesParams : Search(q, param)
    \/ \E sp \in StartPages, mp \in MaxPagesArgs : Call(sp, mp)
    \/ LoopIteration

Spec == Init /\ [][Next]_vars

-----------------------------------------------------------------------------
(* Termination of the crawl.  The page numbers of an endless crawl are     *)
(* unbounded: here every page from SatPage on is SatPage, which is above   *)
(* every page a capped crawl reaches, and the fetch log is not kept.  Each *)
(* fetch returns or raises (timeout=30), so the loop always gets its next  *)
(* pass: weak fairness of the pass.                                        *)

LoopIterationSat ==
    /\ pc = "crawl"
    /\ \E resp \in Responses :
           LoopPass(resp, Min(current_page + 1, SatPage), fetched)

LiveNext ==
    \/ \E q \in RawQueries, param \in MaxPagesParams : Search(q, param)
    \/ \E sp \in StartPages, mp \in MaxPagesArgs : Call(sp, mp)
    \/ LoopIterationSat

LiveSpec == Init /\ [][LiveNext]_vars /\ WF_vars(LoopIterationSat)

-----------------------------------------------------------------------------
(* build_stats applied to a list of records.                               *)

StatsCollections == {None, Some(<<>>), Some(<<"A">>), Some(<<"B">>)}
StatsGrades      == {None, Some(<<"Sahih">>)}
StatsRecords     == [reference : {Some(<<"r1">>)}, collection : StatsCollections,
                     grade_english : StatsGrades, pages : {Some(1)}]
                        \cup [reference : {Some(<<"r1">>)}, collection : {Some(UnknownKey)},
                              grade_english : {Some(<<"Daif">>)}, pages : {Some(1)}]

StatsInit ==
    /\ InitCrawl
    /\ IdlePag
    /\ data \in SeqsUpTo(StatsRecords, MaxData)
    /\ stats = None

BuildStats ==
    /\ stats = None
    /\ stats' = Some(build_stats(data))
    /\ UNCHANGED <<data, crawlVars, pagVars>>

StatsNext == BuildStats

StatsSpec == StatsInit /\ [][StatsNext]_vars

-----------------------------------------------------------------------------
(* extract_pagination_info applied to a page.                              *)

Pager(sel, nxt, prv) == Some([selected |-> sel, next |-> nxt, previous |-> prv])
NoSelected  == [kind |-> "none", val |-> 0]
Pagers      == {None,
                Pager(NoSelected, "absent", "absent"),
                Pager(NoSelected, "shown", "hidden"),
                Pager([kind |-> "int", val |-> 2], "shown", "shown"),
                Pager([kind |-> "int", val |-> 3], "hidden", "shown"),
                Pager([kind |-> "text", val |-> 0], "absent", "shown")}
Showings    == {None} \cup {Some(<<s, e, t>>) : s \in 0..MaxStart, e \in 0..MaxStart,
                                                 t \in 0..MaxTotal}
PagSoups    == [showing : Showings, pager : Pagers, blocks : {<<>>}]

PagInit ==
    /\ InitCrawl
    /\ IdleStats
    /\ soup \in PagSoups
    /\ pagination_info = None

ReadPagination ==
    /\ pagination_info = None
    /\ pagination_info' = Some(extract_pagination_info(soup))
    /\ UNCHANGED <<soup, crawlVars, statsVars>>

PagNext == ReadPagination

PagSpec == PagInit /\ [][PagNext]_vars

-----------------------------------------------------------------------------
(* Properties of the crawl.                                                *)

\* A pass of the loop that fetched a page and extracted it.
Processed == fetched' # fetched /\ ~transport_failed'

NoDuplicate(records) ==
    \A i, j \in 1..Len(records) :
        records[i].reference = records[j].reference => i = j

References(records) == {records[i].reference : i \in 1..Len(records)}

\* The first record of hs with the reference ref.
FirstWith(hs, ref) ==
    hs[CHOOSE i \in 1..Len(hs) :
           /\ hs[i].reference = ref
           /\ \A j \in 1..(i - 1) : hs[j].reference # ref]

\* C1: every pass of the loop leaves the records kept so far in place (a later
\* duplicate never replaces or removes one), adds for each reference of the
\* page not kept before exactly the first record of the page with it, so that
\* every reference met has exactly one record, and what is returned is that
\* sequence.
C1_FirstOccurrenceWins ==
    [][Processed =>
        /\ Len(all_hadiths') >= Len(all_hadiths)
        /\ SubSeq(all_hadiths', 1, Len(all_hadiths)) = all_hadiths
        /\ NoDuplicate(all_hadiths')
        /\ References(all_hadiths') = References(all_hadiths) \cup References(hadiths')
        /\ \A j \in (Len(all_hadiths) + 1)..Len(all_hadiths') :
               all_hadiths'[j] = FirstWith(hadiths', all_hadiths'[j].reference)
        /\ pc' = "done" => outcome'.data = Some(all_hadiths')]_vars

\* A crawl returned its records after a page repeated a reference of an
\* earlier page, and two references were met.
C1_Witness ==
    /\ pc = "done"
    /\ outcome.data = Some(all_hadiths)
    /\ Len(all_hadiths) = 2
    /\ \E i \in 1..Len(all_hadiths), j \in 1..Len(hadiths) :
           /\ hadiths[j].reference = all_hadiths[i].reference
           /\ hadiths[j].pages # all_hadiths[i].pages

\* The block has a reference: the element is there and its text is not blank.
HasReference(block) ==
    /\ block.ref_sticky # None
    /\ \E k \in 1..Len(block.ref_sticky[1]) : block.ref_sticky[1][k] # " "

AllReferenced(records) ==
    \A i \in 1..Len(records) :
        records[i].reference # None /\ Len(records[i].reference[1]) > 0

\* C2: every record scrape_page returns, every record of the aggregate and
\* every record handed to the caller has a non-empty reference, and a page
\* gives as many records as it has blocks with a reference.
C2_ReferenceNonEmpty ==
    /\ AllReferenced(hadiths)
    /\ AllReferenced(all_hadiths)
    /\ outcome.data # None => AllReferenced(outcome.data[1])
    /\ ~transport_failed =>
           Len(hadiths) = Cardinality({i \in 1..Len(blocks) : HasReference(blocks[i])})

\* A page with a block without a reference gave fewer records than blocks.
C2_Witness ==
    /\ ~transport_failed
    /\ \E i \in 1..Len(blocks) : ~HasReference(blocks[i])
    /\ 1 <= Len(hadiths) /\ Len(hadiths) < Len(blocks)
    /\ all_hadiths # <<>>

\* C3: the pages fetched are start_page, start_page + 1, ... in this order, at
\* most max_pages of them when max_pages >= 1; max_pages = 1 from page 5
\* fetches page 5 alone.
C3_PageCap ==
    /\ \A i \in 1..Len(fetched) : fetched[i] = start_page + i - 1
    /\ (max_pages # None /\ max_pages[1] >= 1) => Len(fetched) <= max_pages[1]
    /\ (pc = "done" /\ start_page = 5 /\ max_pages = Some(1)) => fetched = <<5>>

\* The cap of 2 ended a crawl from page 5 whose last page had records and a
\* next page.
C3_Witness ==
    /\ pc = "done"
    /\ start_page = 5
    /\ max_pages = Some(2)
    /\ fetched = <<5, 6>>
    /\ hadiths # <<>>
    /\ has_next
    /\ ~transport_failed

\* C4: a further page is fetched only when the page before gave a record and
\* reported a next page; a page without records ends the crawl, whatever its
\* pagination says, and the records of the pages before are returned as they
\* were.
C4_Continuation ==
    [][/\ (fetched' # fetched /\ fetched # <<>>) =>
              (hadiths # <<>> /\ has_next /\ ~transport_failed /\ pc = "crawl")
       /\ (Processed /\ hadiths' = <<>>) =>
              /\ pc' = "done"
              /\ all_hadiths' = all_hadiths
              /\ outcome'.data = Some(all_hadiths)]_vars

\* A page without records that reported a next page ended a crawl that had
\* records from the page before.
C4_Witness ==
    /\ pc = "done"
    /\ ~transport_failed
    /\ Len(fetched) >= 2
    /\ hadiths = <<>>
    /\ has_next
    /\ all_hadiths # <<>>
    /\ outcome.data = Some(all_hadiths)

\* C5: a crawl with max_pages <= 0 fetches one page and stops.
C5_NormalizedToOne ==
    (max_pages # None /\ max_pages[1] <= 0) =>
        /\ Len(fetched) <= 1
        /\ pc = "done" => Len(fetched) = 1

\* C6: once a fetch has failed the call is over, no page is fetched again, and
\* the caller has the transport error (502 from search) and no records.
C6_TransportFailure ==
    [][/\ transport_failed' =>
              /\ pc' = "done"
              /\ outcome'.data = None
              /\ outcome'.stats = None
              /\ IF caller' = "search"
                 THEN outcome'.kind = "response" /\ outcome'.status = 502
                 ELSE outcome'.kind = "raised"
       /\ transport_failed => fetched' = fetched]_vars

\* The second page of a search failed after the first gave records.
C6_Witness ==
    /\ transport_failed
    /\ caller = "search"
    /\ Len(fetched) = 2
    /\ all_hadiths # <<>>
    /\ outcome.status = 502

\* The q parameter is missing, empty or whitespace.
Blank(raw) == raw = None \/ \A i \in 1..Len(raw[1]) : raw[1][i] = " "

\* C7: a search whose q is missing, empty or blank is answered 400 and never
\* fetches a page.
C7_EmptyQueryRejected ==
    (caller = "search" /\ Blank(raw_q)) =>
        /\ fetched = <<>>
        /\ pc = "done"
        /\ outcome.kind = "response"
        /\ outcome.status = 400
        /\ outcome.data = None

\* A search with a whitespace-only q was answered.
C7_Witness ==
    /\ caller = "search"
    /\ raw_q = Some(<<" ", " ">>)
    /\ pc = "done"
    /\ outcome.status = 400

\* C10: once a crawl is under way it ends, whatever max_pages is and
\* whatever the upstream serves.
C10_Terminates == (pc = "crawl") ~> (pc = "done")

-----------------------------------------------------------------------------
(* Properties of build_stats.                                              *)

\* The record h is counted under the key k of the mapping of field.
Under(h, field, sentinel, k) ==
    \/ h[field] = Some(k)
    \/ k = sentinel /\ h[field] \in {None, Some(<<>>)}

CountUnder(records, field, sentinel, k) ==
    Cardinality({i \in 1..Len(records) : Under(records[i], field, sentinel, k)})

\* The place of the first record counted under k.
FirstSeen(records, field, sentinel, k) ==
    CHOOSE i \in 1..Len(records) :
        /\ Under(records[i], field, sentinel, k)
        /\ \A j \in 1..(i - 1) : ~Under(records[j], field, sentinel, k)

RECURSIVE SumCounts(_)
SumCounts(items) == IF items = <<>> THEN 0 ELSE Head(items)[2] + SumCounts(Tail(items))

\* items is the mapping of field over records: one item a key, each with the
\* number of records under it, the counts adding up to the number of records,
\* by descending count and, among equal counts, in the order first seen.
MappingFor(records, field, sentinel, items) ==
    /\ \A a, b \in 1..Len(items) : items[a][1] = items[b][1] => a = b
    /\ \A a \in 1..Len(items) :
           /\ items[a][2] >= 1
           /\ items[a][2] = CountUnder(records, field, sentinel, items[a][1])
    /\ SumCounts(items) = Len(records)
    /\ \A a, b \in 1..Len(items) :
           a < b =>
               /\ items[a][2] >= items[b][2]
               /\ items[a][2] = items[b][2] =>
                      FirstSeen(records, field, sentinel, items[a][1])
                          < FirstSeen(records, field, sentinel, items[b][1])

\* C8: build_stats gives the length of the list as the total and the two
\* mappings as described, "Unknown" and "Not graded" standing for a missing
\* collection and grade, and leaves the records as they were.
C8_Stats ==
    [][stats' # None =>
        /\ data' = data
        /\ stats'[1].total_hadiths = Len(data)
        /\ MappingFor(data, "collection", UnknownKey, stats'[1].by_collection)
        /\ MappingFor(data, "grade_english", NotGradedKey, stats'[1].by_grade)]_vars

\* The stats of records of collections A, A, B and none.
C8_Witness ==
    /\ stats # None
    /\ Len(data) = 4
    /\ data[1].collection = Some(<<"A">>) /\ data[2].collection = Some(<<"A">>)
    /\ data[3].collection = Some(<<"B">>) /\ data[4].collection = None
    /\ stats[1].by_collection = << <<(<<"A">>), 2>>, <<(<<"B">>), 1>>, <<UnknownKey, 1>> >>
    /\ stats[1].total_hadiths = 4

-----------------------------------------------------------------------------
(* Properties of extract_pagination_info.                                  *)

\* The least n with n * 100 >= t.
CeilPages(t) == CHOOSE n \in 0..t : n * 100 >= t /\ (n = 0 \/ (n - 1) * 100 < t)

ShowingRead(info, showing) ==
    IF showing # None
    THEN /\ info.total_results = showing[1][3]
         /\ info.results_on_page = showing[1][2] - showing[1][1] + 1
         /\ info.total_pages = CeilPages(showing[1][3])
         /\ showing[1][3] = 250 => info.total_pages = 3
         /\ showing[1][3] = 200 => info.total_pages = 2
    ELSE /\ info.total_pages = 1
         /\ info.total_results = 0

\* C9 as stated: the marker is read as above, and a total of 0 comes with
\* total_pages = 1.
C9_ZeroTotalOnePage ==
    pagination_info # None =>
        /\ ShowingRead(pagination_info[1], soup.showing)
        /\ pagination_info[1].total_results = 0 => pagination_info[1].total_pages = 1

\* C9, amended: with the marker total_results is its total, results_on_page
\* is end - start + 1 and total_pages is ceil(total / 100), which is 0 for a
\* marker with total 0; without it total_pages = 1 and total_results = 0.
C9_Pagination ==
    pagination_info # None =>
        /\ ShowingRead(pagination_info[1], soup.showing)
        /\ (soup.showing # None /\ soup.showing[1][3] = 0) =>
               pagination_info[1].total_pages = 0
        /\ pagination_info[1].total_pages = 1 =>
               (soup.showing = None \/ soup.showing[1][3] \in 1..100)

\* A page whose marker reads "of 0" was read.
C9_Witness ==
    /\ pagination_info # None
    /\ soup.showing = Some(<<0, 0, 0>>)
    /\ pagination_info[1].total_results = 0
    /\ pagination_info[1].total_pages = 0

====
